---- MODULE Spec2Model ----
(***************************************************************************)
(* A model of taskfile-to-tasks: the converter (taskfile_to_tasks/         *)
(* converter.py) and its command line entry point (taskfile_to_tasks/      *)
(* cli.py).                                                                *)
(*                                                                         *)
(* Python values are modelled as records [type, repr, items] whose leaves  *)
(* are strings; a dict is the sequence of its [k, v] items in insertion    *)
(* order (Python dicts keep insertion order, and json.dump emits it).      *)
(***************************************************************************)
EXTENDS Integers, Sequences, FiniteSets, TLC

VARIABLES
    caller,      \* "main" (cli.main) or "api" (a program using TaskfileToTasks)
    args,        \* the arguments of the run
    env,         \* what the run finds outside the process
    pc,          \* the statement the run has reached
    self,        \* the fields of the TaskfileToTasks object
    trace,       \* the operations performed so far, in order
    tasks_data,  \* convert(): the list _load_taskfile returned
    tasks,       \* convert(): the list _extract_tasks returned
    output_data, \* convert(): the document to serialise
    tasksJson,   \* the file <output_dir>/tasks.json
    error,       \* the exception that ended the run, "none" if none
    result,      \* what convert() returned: "unset", "None" or "path"
    exitCode,    \* what main() returned: NoExit until it returns
    fn           \* the call and result of a function applied on its own

vars == <<caller, args, env, pc, self, trace, tasks_data, tasks, output_data,
          tasksJson, error, result, exitCode, fn>>

(***************************************************************************)
(* Bounds                                                                  *)
(***************************************************************************)
MaxTasks == 2

MaxRunTasks == 1

MaxExtra == 1

MaxOverrides == 3

(***************************************************************************)
(* Python values                                                           *)
(***************************************************************************)
VStr(s) == [type |-> "str", repr |-> s, items |-> <<>>]

VBool(b) == [type |-> "bool", repr |-> IF b THEN "true" ELSE "false", items |-> <<>>]

VNull == [type |-> "null", repr |-> "null", items |-> <<>>]

\* a datetime.date, which yaml.safe_load builds from a YAML timestamp
VDate(s) == [type |-> "date", repr |-> s, items |-> <<>>]

VList(xs) == [type |-> "list", repr |-> "", items |-> xs]

VDict(d) == [type |-> "dict", repr |-> "", items |-> d]

Item(k, v) == [k |-> k, v |-> v]

DictKeys(d) == {d[i].k : i \in 1..Len(d)}

DictHas(d, k) == k \in DictKeys(d)

DictGet(d, k) == d[CHOOSE i \in 1..Len(d) : d[i].k = k].v

\* d[k] = v: an existing key keeps its place, a new key goes last
DictSet(d, k, v) ==
    IF DictHas(d, k)
    THEN [i \in 1..Len(d) |-> IF d[i].k = k THEN Item(k, v) ELSE d[i]]
    ELSE Append(d, Item(k, v))

\* d.update(e)
RECURSIVE DictUpdate(_, _)
DictUpdate(d, e) ==
    IF e = <<>> THEN d
    ELSE DictUpdate(DictSet(d, Head(e).k, Head(e).v), Tail(e))

\* d1 == d2 in Python: the same keys with the same values, in any order
DictEq(d1, d2) ==
    /\ DictKeys(d1) = DictKeys(d2)
    /\ \A k \in DictKeys(d1) : DictGet(d1, k) = DictGet(d2, k)

RECURSIVE SeqsUpTo(_, _)
SeqsUpTo(S, n) ==
    IF n = 0 THEN {<<>>}
    ELSE LET shorter == SeqsUpTo(S, n - 1)
         IN shorter \cup {Append(s, x) : s \in {t \in shorter : Len(t) = n - 1}, x \in S}

(***************************************************************************)
(* parse_yaml_option and merge_options                                     *)
(***************************************************************************)
\* An option string "<key>: <text>", kept as its two parts.
Opt(key, text) == [key |-> key, text |-> text]

YamlTrue == {"true", "True", "yes", "on"}

YamlFalse == {"false", "False", "no", "off"}

YamlNull == {"", "~", "null"}

\* plain scalars the YAML 1.1 timestamp resolver takes
YamlTimestamps == {"2020-01-01"}

\* texts that leave the flow mapping "{<key>: <text>}" unparsable
YamlMalformed == {"["}

\* yaml.safe_load's value for a plain scalar
YamlScalar(text) ==
    IF text \in YamlTrue THEN VBool(TRUE)
    ELSE IF text \in YamlFalse THEN VBool(FALSE)
    ELSE IF text \in YamlNull THEN VNull
    ELSE IF text \in YamlTimestamps THEN VDate(text)
    ELSE VStr(text)

\* parse_yaml_option: [ok, data]; ok = FALSE is the ValueError
parse_yaml_option(option_str) ==
    IF option_str.text \in YamlMalformed
    THEN [ok |-> FALSE, data |-> <<>>]
    ELSE [ok |-> TRUE, data |-> <<Item(option_str.key, YamlScalar(option_str.text))>>]

\* _parse_extra_options: [ok, parsed]; ok = FALSE is the ValueError
_parse_extra_options(options) ==
    IF \E i \in 1..Len(options) : ~parse_yaml_option(options[i]).ok
    THEN [ok |-> FALSE, parsed |-> <<>>]
    ELSE [ok |-> TRUE,
          parsed |-> [i \in 1..Len(options) |-> parse_yaml_option(options[i]).data]]

\* the loop of merge_options over the objects of a heap
RECURSIVE MergeLoop(_, _, _)
MergeLoop(heap, res, extra) ==
    IF extra = <<>> THEN heap
    ELSE MergeLoop([heap EXCEPT ![res] = DictUpdate(heap[res], heap[Head(extra)])],
                   res, Tail(extra))

\* merge_options with "result = base" for "result = base.copy()"
merge_options_alias(heap, base, extra) ==
    [heap |-> MergeLoop(heap, base, extra), result |-> base]

\* merge_options(base, extra). heap is the sequence of the dict objects alive,
\* base and the members of extra are indexes into it; the result is the heap
\* afterwards and the index of the dict returned.
merge_options(heap, base, extra) ==
    LET res == Len(heap) + 1
    IN [heap |-> MergeLoop(Append(heap, heap[base]), res, extra),
        result |-> res]

\* the value of merge_options(base, extra) for dict values base and extra[i]
MergedOptions(base, extra) ==
    LET r == merge_options(<<base>> \o extra, 1, [i \in 1..Len(extra) |-> i + 1])
    IN r.heap[r.result]

(***************************************************************************)
(* _extract_tasks                                                          *)
(***************************************************************************)
\* An entry of the listing: a JSON object with the keys named in has, or
\* (kind = "other") a JSON value that is not an object.
RawTask(has, task, desc) ==
    [kind |-> "dict", has |-> has,
     task |-> IF "task" \in has THEN task ELSE "",
     desc |-> IF "desc" \in has THEN desc ELSE ""]

NotADict == [kind |-> "other", has |-> {}, task |-> "", desc |-> ""]

\* task.get(key, default)
Get(task, key, default) ==
    IF key \notin task.has THEN default
    ELSE IF key = "task" THEN task.task ELSE task.desc

\* _extract_tasks skipping a task only when its id is empty and in skip_tasks
_extract_tasks_and(raw, skip_tasks) ==
    LET Keep(task) ==
            /\ task.kind = "dict"
            /\ ~(Get(task, "task", "") = "" /\ Get(task, "task", "") \in skip_tasks)
        kept == SelectSeq(raw, Keep)
    IN [i \in 1..Len(kept) |->
           [id |-> Get(kept[i], "task", ""),
            label |-> Get(kept[i], "task", ""),
            description |-> Get(kept[i], "desc", "")]]

_extract_tasks(raw, skip_tasks) ==
    LET Keep(task) ==
            /\ task.kind = "dict"
            /\ ~(Get(task, "task", "") = "" \/ Get(task, "task", "") \in skip_tasks)
        kept == SelectSeq(raw, Keep)
    IN [i \in 1..Len(kept) |->
           [id |-> Get(kept[i], "task", ""),
            label |-> Get(kept[i], "task", ""),
            description |-> Get(kept[i], "desc", "")]]

(***************************************************************************)
(* The projectors                                                          *)
(***************************************************************************)
ZedDefaultOptions == <<Item("use_new_terminal", VBool(TRUE))>>

VscodeDefaultOptions ==
    <<Item("echo", VBool(TRUE)), Item("reveal", VStr("always")),
      Item("focus", VBool(FALSE)), Item("panel", VStr("shared"))>>

ZedLabel(task) ==
    IF task.description # "" THEN task.id \o " - " \o task.description ELSE task.id

\* _generate_zed_tasks building each entry from the options, then its own keys
_generate_zed_tasks_own_last(tasks_, task_command, extra_zed_options) ==
    LET extra_merged == MergedOptions(ZedDefaultOptions, extra_zed_options)
    IN [i \in 1..Len(tasks_) |->
           DictUpdate(extra_merged,
                      <<Item("label", VStr(ZedLabel(tasks_[i]))),
                        Item("command", VStr(task_command)),
                        Item("args", VList(<<VStr(tasks_[i].id)>>))>>)]

_generate_zed_tasks(tasks_, task_command, extra_zed_options) ==
    LET extra_merged == MergedOptions(ZedDefaultOptions, extra_zed_options)
    IN [i \in 1..Len(tasks_) |->
           DictUpdate(<<Item("label", VStr(ZedLabel(tasks_[i]))),
                        Item("command", VStr(task_command)),
                        Item("args", VList(<<VStr(tasks_[i].id)>>))>>,
                      extra_merged)]

\* the entry of a task with the description set whatever it is
VscodeTask_always_description(task, task_command, presentation) ==
    DictSet(<<Item("label", VStr(task.label)),
              Item("type", VStr("shell")),
              Item("command", VStr(task_command)),
              Item("args", VList(<<VStr(task.id)>>)),
              Item("presentation", VDict(presentation)),
              Item("group", VDict(<<Item("kind", VStr("build")),
                                    Item("isDefault", VBool(FALSE))>>))>>,
            "description", VStr(task.description))

VscodeTask(task, task_command, presentation) ==
    LET vscode_task ==
            <<Item("label", VStr(task.label)),
              Item("type", VStr("shell")),
              Item("command", VStr(task_command)),
              Item("args", VList(<<VStr(task.id)>>)),
              Item("presentation", VDict(presentation)),
              Item("group", VDict(<<Item("kind", VStr("build")),
                                    Item("isDefault", VBool(FALSE))>>))>>
    IN IF task.description # ""
       THEN DictSet(vscode_task, "description", VStr(task.description))
       ELSE vscode_task

_generate_vscode_tasks(tasks_, task_command, extra_vscode_options) ==
    LET presentation == MergedOptions(VscodeDefaultOptions, extra_vscode_options)
    IN <<Item("version", VStr("2.0.0")),
         Item("tasks", VList([i \in 1..Len(tasks_) |->
                                 VDict(VscodeTask(tasks_[i], task_command, presentation))]))>>

(***************************************************************************)
(* json.dump                                                               *)
(***************************************************************************)
\* The chunks json.dump(v, f, indent=2) hands to f.write, in order, without
\* the white space and the separators: [ok, chunks]. ok = FALSE is the
\* TypeError raised at a value JSON cannot hold, after the chunks before it
\* have been written.
RECURSIVE JsonChunks(_)
RECURSIVE JsonItems(_, _, _)
JsonItems(items, isDict, acc) ==
    IF items = <<>> THEN [ok |-> TRUE, chunks |-> acc]
    ELSE LET first == IF isDict
                      THEN JsonChunks(Head(items).v)
                      ELSE JsonChunks(Head(items))
             key == IF isDict THEN <<"\"" \o Head(items).k \o "\":">> ELSE <<>>
         IN IF first.ok
            THEN JsonItems(Tail(items), isDict, acc \o key \o first.chunks)
            ELSE [ok |-> FALSE, chunks |-> acc \o key \o first.chunks]

JsonChunks(v) ==
    IF v.type = "str" THEN [ok |-> TRUE, chunks |-> <<"\"" \o v.repr \o "\"">>]
    ELSE IF v.type \in {"bool", "null"} THEN [ok |-> TRUE, chunks |-> <<v.repr>>]
    ELSE IF v.type = "list"
    THEN LET r == JsonItems(v.items, FALSE, <<"[">>)
         IN IF r.ok THEN [ok |-> TRUE, chunks |-> Append(r.chunks, "]")] ELSE r
    ELSE IF v.type = "dict"
    THEN LET r == JsonItems(v.items, TRUE, <<"{">>)
         IN IF r.ok THEN [ok |-> TRUE, chunks |-> Append(r.chunks, "}")] ELSE r
    ELSE [ok |-> FALSE, chunks |-> <<>>]

(***************************************************************************)
(* The inputs                                                              *)
(***************************************************************************)
Ids == {"build", "test_unit"}

Descs == {"", "Build"}

RawTasks ==
    {NotADict} \cup
    {RawTask(has, t, d) : has \in SUBSET {"task", "desc"}, t \in Ids \cup {""}, d \in Descs}

\* the entries a listing of a whole run is drawn from
RunRawTasks ==
    {RawTask({"task"}, "", ""), RawTask({"task", "desc"}, "build", "Build"),
     RawTask({"task"}, "test_unit", "")}

ExtractedTasks == {[id |-> t, label |-> t, description |-> d] : t \in Ids, d \in Descs}

OptionStrings ==
    {Opt("cwd", "/tmp"), Opt("use_new_terminal", "false"), Opt("label", "Run"),
     Opt("when", "2020-01-01"), Opt("env", "[")}

\* the skip lists a whole run is drawn from
RunSkipTasks == {{}, {"build"}}

\* the option strings a whole run is drawn from
RunOptionStrings == {Opt("cwd", "/tmp"), Opt("when", "2020-01-01"), Opt("env", "[")}

ParsedOptions == {parse_yaml_option(o).data : o \in {x \in OptionStrings : parse_yaml_option(x).ok}}

EditorInputs == {"ZED", "vscode", "emacs"}

\* str.lower() on the editor names above
Lower(s) == IF s = "ZED" THEN "zed" ELSE s

\* --editor choices of the argument parser
EditorChoices == {"vscode", "zed"}

\* a skip pattern: a literal, anchored at the start of the id ("^lit") or not
Pattern(anchored, lit) == [anchored |-> anchored, lit |-> lit]

PatternArgs ==
    {<<>>, <<Pattern(TRUE, "test_")>>, <<Pattern(TRUE, "test_"), Pattern(FALSE, "uil")>>}

\* re.search(pattern, id) is not None
Matches(pattern, id) ==
    LET n == Len(pattern.lit)
    IN IF pattern.anchored
       THEN Len(id) >= n /\ SubSeq(id, 1, n) = pattern.lit
       ELSE \E i \in 1..(Len(id) - n + 1) : SubSeq(id, i, i + n - 1) = pattern.lit

MatchesAny(patterns, id) == \E i \in 1..Len(patterns) : Matches(patterns[i], id)

ProbeFailures == {"CalledProcessError", "FileNotFoundError", "PermissionError",
                  "TimeoutExpired"}

ListingFailures == {"CalledProcessError", "JSONDecodeError", "shape"}

(***************************************************************************)
(* The state of a run                                                      *)
(***************************************************************************)
Absent == [exists |-> FALSE, content |-> <<>>]

OldFile == [exists |-> TRUE, content |-> <<"(an earlier tasks.json)">>]

Self0 ==
    [editor |-> "unset", skip_tasks |-> {}, source_file |-> "unset",
     output_dir |-> "unset", task_command |-> "unset",
     extra_zed_options |-> <<>>, extra_vscode_options |-> <<>>]

Args0 ==
    [editor |-> "zed", skip_tasks |-> {}, skip_task_patterns |-> <<>>,
     extra_zed_options |-> <<>>, extra_vscode_options |-> <<>>, mode |-> "unset"]

Env0 ==
    [source |-> "found", runner |-> "task", listing |-> [valid |-> TRUE, tasks |-> <<>>],
     disk |-> "ok", file0 |-> Absent]

NoCall == [name |-> "none"]

Ev(op, arg, res) == [op |-> op, arg |-> arg, res |-> res]

\* the parameters __init__ accepts by keyword
InitParams ==
    {"source_file", "output_dir", "editor", "skip_tasks", "extra_zed_options",
     "extra_vscode_options", "verbose"}

\* the keywords main() passes to TaskfileToTasks(...)
MainKwargs ==
    {"source_file", "output_dir", "editor", "skip_tasks", "skip_task_patterns",
     "extra_zed_options", "extra_vscode_options", "verbose"}

\* the keywords a program using the class passes
ApiKwargs == InitParams

\* no run: the state of the run variables while a function is applied on its own
NoRun ==
    /\ caller = "none"
    /\ args = Args0
    /\ env = Env0
    /\ pc = "idle"
    /\ self = Self0
    /\ trace = <<>>
    /\ tasks_data = <<>>
    /\ tasks = <<>>
    /\ output_data = VNull
    /\ tasksJson = Absent
    /\ error = "none"
    /\ result = "unset"
    /\ exitCode = <<>>

runVars == <<caller, args, env, pc, self, trace, tasks_data, tasks, output_data,
             tasksJson, error, result, exitCode>>

(***************************************************************************)
(* A run: main(), or a program that constructs a TaskfileToTasks and calls *)
(* convert() or print_tasks_summary()                                      *)
(***************************************************************************)
ExtraPairs ==
    {pair \in SeqsUpTo(RunOptionStrings, MaxExtra) \X SeqsUpTo(RunOptionStrings, MaxExtra) :
        pair[1] = <<>> \/ pair[2] = <<>>}

RunListings ==
    {[valid |-> FALSE, tasks |-> <<>>]} \cup
    {[valid |-> TRUE, tasks |-> l] : l \in SeqsUpTo(RunRawTasks, MaxRunTasks)}

RunArgs(c) ==
    {[editor |-> e, skip_tasks |-> sk, skip_task_patterns |-> p,
      extra_zed_options |-> x[1], extra_vscode_options |-> x[2], mode |-> "unset"] :
        e \in IF c = "main" THEN EditorChoices ELSE EditorInputs,
        sk \in RunSkipTasks,
        p \in IF c = "main" THEN PatternArgs ELSE {<<>>},
        x \in ExtraPairs}

RunEnvs ==
    {[source |-> s, runner |-> r, listing |-> l, disk |-> d, file0 |-> f] :
        s \in {"found", "missing"}, r \in {"task", "go-task", "none"},
        l \in RunListings, d \in {"ok", "readonly"}, f \in {Absent, OldFile}}

Init ==
    /\ caller \in {"main", "api"}
    /\ args \in RunArgs(caller)
    /\ env \in RunEnvs
    /\ pc = "start"
    /\ self = Self0
    /\ trace = <<>>
    /\ tasks_data = <<>>
    /\ tasks = <<>>
    /\ output_data = VNull
    /\ tasksJson = env.file0
    /\ error = "none"
    /\ result = "unset"
    /\ exitCode = <<>>
    /\ fn = NoCall

\* The run ends with exception e. In main() each except clause returns 1;
\* a program using the class gets the exception.
Raise(e) ==
    /\ pc' = "done"
    /\ error' = e
    /\ exitCode' = IF caller = "main" THEN <<1>> ELSE <<>>

\* The run ends without an exception: main() returns 0.
Return ==
    /\ pc' = "done"
    /\ error' = "none"
    /\ exitCode' = IF caller = "main" THEN <<0>> ELSE <<>>

Goto(next) ==
    /\ pc' = next
    /\ UNCHANGED <<error, exitCode>>

Log(e) == trace' = Append(trace, e)

\* The call TaskfileToTasks(...): Python binds the keywords to __init__'s
\* parameters before the body runs, and raises TypeError for one it lacks.
CallInit ==
    /\ pc = "start"
    /\ IF (IF caller = "main" THEN MainKwargs ELSE ApiKwargs) \subseteq InitParams
       THEN Goto("init")
       ELSE Raise("TypeError")
    /\ UNCHANGED <<caller, args, env, self, trace, tasks_data, tasks, output_data,
                   tasksJson, result, fn>>

\* __init__ without the check of the editor
InitEditor_unchecked ==
    /\ pc = "init"
    /\ self' = [self EXCEPT !.editor = Lower(args.editor),
                            !.skip_tasks = args.skip_tasks]
    /\ Goto("resolve_source")
    /\ UNCHANGED <<caller, args, env, trace, tasks_data, tasks, output_data,
                   tasksJson, result, fn>>

\* __init__, lines 91-96
InitEditor ==
    /\ pc = "init"
    /\ IF Lower(args.editor) \in {"vscode", "zed"}
       THEN /\ self' = [self EXCEPT !.editor = Lower(args.editor),
                                    !.skip_tasks = args.skip_tasks]
            /\ Goto("resolve_source")
       ELSE /\ self' = [self EXCEPT !.editor = Lower(args.editor)]
            /\ Raise("ValueError")
    /\ UNCHANGED <<caller, args, env, trace, tasks_data, tasks, output_data,
                   tasksJson, result, fn>>

\* _resolve_source_file: the path given, if one is; else Taskfile.yml in the
\* git root, else in the current directory
_resolve_source_file ==
    /\ pc = "resolve_source"
    /\ \E given \in BOOLEAN :
          LET place == IF given THEN "source_file" ELSE "git root, current directory"
          IN IF env.source = "found"
             THEN /\ Log(Ev("find", place, "found"))
                  /\ self' = [self EXCEPT !.source_file = "resolved"]
                  /\ Goto("resolve_output")
             ELSE /\ Log(Ev("find", place, "missing"))
                  /\ UNCHANGED self
                  /\ Raise("FileNotFoundError")
    /\ UNCHANGED <<caller, args, env, tasks_data, tasks, output_data, tasksJson,
                   result, fn>>

\* _resolve_output_dir: the directory given, else .zed or .vscode; created
_resolve_output_dir ==
    /\ pc = "resolve_output"
    /\ \E given \in BOOLEAN :
          LET path == IF given THEN "out"
                      ELSE IF self.editor = "zed" THEN ".zed" ELSE ".vscode"
          IN /\ Log(Ev("mkdir", path, "ok"))
             /\ self' = [self EXCEPT !.output_dir = path]
    /\ Goto("probe_task")
    /\ UNCHANGED <<caller, args, env, tasks_data, tasks, output_data, tasksJson,
                   result, fn>>

\* One turn of the loop of _find_task_command: the probe "<cmd> --version".
\* The run proceeds to found when it succeeds, and else to missed.
Probe(cmd, found, missed) ==
    IF env.runner = cmd
    THEN /\ Log(Ev("probe", cmd, "ok"))
         /\ self' = [self EXCEPT !.task_command = cmd]
         /\ Goto(found)
    ELSE /\ \E failure \in ProbeFailures : Log(Ev("probe", cmd, failure))
         /\ UNCHANGED self
         /\ IF missed = "raise" THEN Raise("RuntimeError") ELSE Goto(missed)

\* the loop of _find_task_command starting with "go-task"
ProbeTask_go_first ==
    /\ pc = "probe_task"
    /\ Probe("go-task", "parse_options", "probe_go_task")
    /\ UNCHANGED <<caller, args, env, tasks_data, tasks, output_data, tasksJson,
                   result, fn>>

ProbeTask ==
    /\ pc = "probe_task"
    /\ Probe("task", "parse_options", "probe_go_task")
    /\ UNCHANGED <<caller, args, env, tasks_data, tasks, output_data, tasksJson,
                   result, fn>>

ProbeGoTask ==
    /\ pc = "probe_go_task"
    /\ Probe("go-task", "parse_options", "raise")
    /\ UNCHANGED <<caller, args, env, tasks_data, tasks, output_data, tasksJson,
                   result, fn>>

\* __init__, lines 101-105
ParseExtraOptions ==
    /\ pc = "parse_options"
    /\ LET zed == _parse_extra_options(args.extra_zed_options)
           vscode == _parse_extra_options(args.extra_vscode_options)
       IN IF ~zed.ok
          THEN /\ Log(Ev("parse", "extra_zed_options", "ValueError"))
               /\ UNCHANGED self
               /\ Raise("ValueError")
          ELSE IF ~vscode.ok
          THEN /\ Log(Ev("parse", "extra_vscode_options", "ValueError"))
               /\ self' = [self EXCEPT !.extra_zed_options = zed.parsed]
               /\ Raise("ValueError")
          ELSE /\ Log(Ev("parse", "extra_options", "ok"))
               /\ self' = [self EXCEPT !.extra_zed_options = zed.parsed,
                                       !.extra_vscode_options = vscode.parsed]
               /\ Goto("constructed")
    /\ UNCHANGED <<caller, args, env, tasks_data, tasks, output_data, tasksJson,
                   result, fn>>

\* The caller's next statement: print_tasks_summary() or convert()
Invoke ==
    /\ pc = "constructed"
    /\ \E mode \in {"convert", "preview"} : args' = [args EXCEPT !.mode = mode]
    /\ Goto("load")
    /\ UNCHANGED <<caller, env, self, trace, tasks_data, tasks, output_data,
                   tasksJson, result, fn>>

\* _load_taskfile
_load_taskfile ==
    /\ pc = "load"
    /\ IF env.listing.valid
       THEN /\ Log(Ev("list", self.task_command, "ok"))
            /\ tasks_data' = env.listing.tasks
            /\ Goto("extract")
       ELSE /\ \E failure \in ListingFailures :
                  /\ Log(Ev("list", self.task_command, failure))
                  /\ Raise(IF failure = "CalledProcessError"
                           THEN "RuntimeError" ELSE "ValueError")
            /\ UNCHANGED tasks_data
    /\ UNCHANGED <<caller, args, env, self, tasks, output_data, tasksJson, result, fn>>

\* convert() without the return at an empty list
Extract_no_empty_check ==
    /\ pc = "extract"
    /\ tasks' = _extract_tasks(tasks_data, self.skip_tasks)
    /\ Log(Ev("extract", "", "ok"))
    /\ UNCHANGED result
    /\ Goto(IF args.mode = "preview" THEN "print" ELSE "project")
    /\ UNCHANGED <<caller, args, env, self, tasks_data, output_data, tasksJson, fn>>

\* the preview going on as convert() does
Extract_preview_converts ==
    /\ pc = "extract"
    /\ tasks' = _extract_tasks(tasks_data, self.skip_tasks)
    /\ IF tasks' = <<>>
       THEN /\ trace' = trace \o <<Ev("extract", "", "ok"),
                                   Ev("print", "Warning: No tasks found", "ok")>>
            /\ result' = "None"
            /\ Return
       ELSE /\ Log(Ev("extract", "", "ok"))
            /\ UNCHANGED result
            /\ Goto("project")
    /\ UNCHANGED <<caller, args, env, self, tasks_data, output_data, tasksJson, fn>>

\* convert(), lines 414-421, and get_tasks_summary(), line 445
Extract ==
    /\ pc = "extract"
    /\ tasks' = _extract_tasks(tasks_data, self.skip_tasks)
    /\ IF args.mode = "preview"
       THEN /\ Log(Ev("extract", "", "ok"))
            /\ UNCHANGED result
            /\ Goto("print")
       ELSE IF tasks' = <<>>
       THEN /\ trace' = trace \o <<Ev("extract", "", "ok"),
                                   Ev("print", "Warning: No tasks found", "ok")>>
            /\ result' = "None"
            /\ Return
       ELSE /\ Log(Ev("extract", "", "ok"))
            /\ UNCHANGED result
            /\ Goto("project")
    /\ UNCHANGED <<caller, args, env, self, tasks_data, output_data, tasksJson, fn>>

\* convert(), lines 423-426
Project ==
    /\ pc = "project"
    /\ output_data' =
          IF self.editor = "vscode"
          THEN VDict(_generate_vscode_tasks(tasks, self.task_command,
                                            self.extra_vscode_options))
          ELSE LET zed == _generate_zed_tasks(tasks, self.task_command,
                                              self.extra_zed_options)
               IN VList([i \in 1..Len(zed) |-> VDict(zed[i])])
    /\ Log(Ev("project", self.editor, "ok"))
    /\ Goto("open")
    /\ UNCHANGED <<caller, args, env, self, tasks_data, tasks, tasksJson, result, fn>>

\* convert(), line 432: open(output_file, "w") truncates the file
OpenOutput ==
    /\ pc = "open"
    /\ IF env.disk = "ok"
       THEN /\ Log(Ev("open", "tasks.json", "ok"))
            /\ tasksJson' = [exists |-> TRUE, content |-> <<>>]
            /\ Goto("dump")
       ELSE /\ Log(Ev("open", "tasks.json", "PermissionError"))
            /\ UNCHANGED tasksJson
            /\ Raise("PermissionError")
    /\ UNCHANGED <<caller, args, env, self, tasks_data, tasks, output_data, result, fn>>

\* convert(), lines 433-436: json.dump writes chunk by chunk, and the file
\* is closed with what was written when it raises
Dump ==
    /\ pc = "dump"
    /\ LET r == JsonChunks(output_data)
       IN /\ tasksJson' = [exists |-> TRUE, content |-> r.chunks]
          /\ IF r.ok
             THEN /\ Log(Ev("write", "tasks.json", "ok"))
                  /\ result' = "path"
                  /\ Return
             ELSE /\ Log(Ev("write", "tasks.json", "TypeError"))
                  /\ UNCHANGED result
                  /\ Raise("TypeError")
    /\ UNCHANGED <<caller, args, env, self, tasks_data, tasks, output_data, fn>>

\* print_tasks_summary(), lines 454-465
PrintSummary ==
    /\ pc = "print"
    /\ Log(Ev("print", IF tasks = <<>> THEN "No tasks found" ELSE "summary", "ok"))
    /\ Return
    /\ UNCHANGED <<caller, args, env, self, tasks_data, tasks, output_data,
                   tasksJson, result, fn>>

Next ==
    \/ CallInit
    \/ InitEditor
    \/ _resolve_source_file
    \/ _resolve_output_dir
    \/ ProbeTask
    \/ ProbeGoTask
    \/ ParseExtraOptions
    \/ Invoke
    \/ _load_taskfile
    \/ Extract
    \/ Project
    \/ OpenOutput
    \/ Dump
    \/ PrintSummary

Spec == Init /\ [][Next]_vars

(***************************************************************************)
(* Functions applied on their own                                          *)
(***************************************************************************)
InitExtract ==
    /\ NoRun
    /\ fn \in {[name |-> "_extract_tasks", raw |-> r, skip |-> sk,
                called |-> FALSE, out |-> <<>>] :
                  r \in SeqsUpTo(RawTasks, MaxTasks), sk \in SUBSET (Ids \cup {""})}

ApplyExtract ==
    /\ fn.name = "_extract_tasks"
    /\ ~fn.called
    /\ fn' = [fn EXCEPT !.called = TRUE, !.out = _extract_tasks(fn.raw, fn.skip)]
    /\ UNCHANGED runVars

NextExtract == ApplyExtract

SpecExtract == InitExtract /\ [][NextExtract]_vars

\* dicts over two keys and two values
MergeDicts ==
    {<<>>} \cup
    {<<Item(k, VStr(v))>> : k \in {"k1", "k2"}, v \in {"a", "b"}} \cup
    {<<Item("k1", VStr(v1)), Item("k2", VStr(v2))>> : v1 \in {"a", "b"}, v2 \in {"a", "b"}}

\* the heap holds base at index 1 and the overrides after it
InitMerge ==
    /\ NoRun
    /\ fn \in {[name |-> "merge_options", heap0 |-> <<base>> \o extra,
                called |-> FALSE, heap |-> <<>>, result |-> 0] :
                  base \in MergeDicts, extra \in SeqsUpTo(MergeDicts, MaxOverrides)}

ApplyMerge ==
    /\ fn.name = "merge_options"
    /\ ~fn.called
    /\ LET r == merge_options(fn.heap0, 1, [i \in 1..(Len(fn.heap0) - 1) |-> i + 1])
       IN fn' = [fn EXCEPT !.called = TRUE, !.heap = r.heap, !.result = r.result]
    /\ UNCHANGED runVars

NextMerge == ApplyMerge

SpecMerge == InitMerge /\ [][NextMerge]_vars

InitZed ==
    /\ NoRun
    /\ fn \in {[name |-> "_generate_zed_tasks", tasks |-> t, task_command |-> c,
                extra |-> x, called |-> FALSE, out |-> <<>>] :
                  t \in SeqsUpTo(ExtractedTasks, MaxTasks), c \in {"task", "go-task"},
                  x \in SeqsUpTo(ParsedOptions, MaxExtra + 1)}

ApplyZed ==
    /\ fn.name = "_generate_zed_tasks"
    /\ ~fn.called
    /\ fn' = [fn EXCEPT !.called = TRUE,
                        !.out = _generate_zed_tasks(fn.tasks, fn.task_command, fn.extra)]
    /\ UNCHANGED runVars

NextZed == ApplyZed

SpecZed == InitZed /\ [][NextZed]_vars

(***************************************************************************)
(* Properties                                                              *)
(***************************************************************************)
\* C1: every record _extract_tasks returns has a non-empty id that is not in
\* skip_tasks.
C1_ExtractedIdsKept ==
    (fn.name = "_extract_tasks" /\ fn.called) =>
        \A i \in 1..Len(fn.out) : fn.out[i].id # "" /\ fn.out[i].id \notin fn.skip

C1_Witness ==
    /\ fn.name = "_extract_tasks"
    /\ fn.called
    /\ \E i \in 1..Len(fn.raw) : fn.raw[i].kind = "dict" /\ fn.raw[i].task \in fn.skip \ {""}
    /\ fn.out # <<>>

\* the value merge_options gives key k: that of the last override holding
\* it, else that of base
LastWrite(heap0, k) ==
    LET holders == {i \in 1..Len(heap0) : DictHas(heap0[i], k)}
        last == CHOOSE i \in holders : \A j \in holders : j <= i
    IN DictGet(heap0[last], k)

\* C7: merge_options(base, [a, b, c]) equals
\* merge_options(merge_options(base, [a, b]), [c]); each key of the result
\* has the value of the last override holding it, else that of base; and
\* base and the overrides are as they were.
C7_MergeOptions ==
    (fn.name = "merge_options" /\ fn.called) =>
        LET n == Len(fn.heap0)
            base == fn.heap0[1]
            extra == SubSeq(fn.heap0, 2, n)
            merged == fn.heap[fn.result]
        IN /\ n > 1 =>
                DictEq(merged,
                       MergedOptions(MergedOptions(base, SubSeq(extra, 1, n - 2)),
                                     <<extra[n - 1]>>))
           /\ DictKeys(merged) = UNION {DictKeys(fn.heap0[i]) : i \in 1..n}
           /\ \A k \in DictKeys(merged) : DictGet(merged, k) = LastWrite(fn.heap0, k)
           /\ \A i \in 1..n : fn.heap[i] = fn.heap0[i]

C7_Witness ==
    /\ fn.name = "merge_options"
    /\ fn.called
    /\ Len(fn.heap0) = 4
    /\ DictHas(fn.heap0[1], "k1") /\ DictGet(fn.heap0[1], "k1") = VStr("a")
    /\ DictHas(fn.heap0[2], "k1") /\ DictGet(fn.heap0[2], "k1") = VStr("b")
    /\ DictHas(fn.heap0[3], "k1") /\ DictGet(fn.heap0[3], "k1") = VStr("a")
    /\ ~DictHas(fn.heap0[4], "k1")
    /\ DictHas(fn.heap0[4], "k2")
    /\ DictGet(fn.heap[fn.result], "k1") = VStr("a")
    /\ fn.result = 5

\* the label, command and args claimed for the entry of a task
ZedOwn(task, task_command) ==
    <<Item("label", VStr(IF task.description = "" THEN task.id
                         ELSE task.id \o " - " \o task.description)),
      Item("command", VStr(task_command)),
      Item("args", VList(<<VStr(task.id)>>))>>

\* C10 as claimed: one entry per task in order, each with label
\* "<id> - <description>" (or "<id>"), command the executable, args [id],
\* and the merged options at top level.
C10_ZedEntriesAsClaimed ==
    (fn.name = "_generate_zed_tasks" /\ fn.called) =>
        LET merged == MergedOptions(ZedDefaultOptions, fn.extra)
        IN /\ Len(fn.out) = Len(fn.tasks)
           /\ \A i \in 1..Len(fn.out) :
                 /\ \A k \in {"label", "command", "args"} :
                       /\ DictHas(fn.out[i], k)
                       /\ DictGet(fn.out[i], k) = DictGet(ZedOwn(fn.tasks[i], fn.task_command), k)
                 /\ \A k \in DictKeys(merged) :
                       DictHas(fn.out[i], k) /\ DictGet(fn.out[i], k) = DictGet(merged, k)

\* C10, amended: one entry per task in order; each entry holds every merged
\* option with its merged value, and label, command and args as claimed
\* unless the merged options hold that key; and no other key.
C10_ZedEntries ==
    (fn.name = "_generate_zed_tasks" /\ fn.called) =>
        LET merged == MergedOptions(ZedDefaultOptions, fn.extra)
        IN /\ Len(fn.out) = Len(fn.tasks)
           /\ \A i \in 1..Len(fn.out) :
                 /\ DictKeys(fn.out[i]) = {"label", "command", "args"} \cup DictKeys(merged)
                 /\ \A k \in {"label", "command", "args"} \ DictKeys(merged) :
                       DictGet(fn.out[i], k) = DictGet(ZedOwn(fn.tasks[i], fn.task_command), k)
                 /\ \A k \in DictKeys(merged) : DictGet(fn.out[i], k) = DictGet(merged, k)

C10_Witness ==
    /\ fn.name = "_generate_zed_tasks"
    /\ fn.called
    /\ Len(fn.out) = 2
    /\ fn.tasks[1].description = "Build"
    /\ fn.tasks[2].description = ""
    /\ fn.tasks[1].id # fn.tasks[2].id
    /\ fn.extra = <<<<Item("use_new_terminal", VBool(FALSE))>>, <<Item("label", VStr("Run"))>>>>
    /\ DictGet(fn.out[1], "label") = VStr("Run")
    /\ DictGet(fn.out[1], "args") = VList(<<VStr(fn.tasks[1].id)>>)
    /\ DictGet(fn.out[2], "use_new_terminal") = VBool(FALSE)

\* the positions of trace holding operation op
At(op) == {i \in 1..Len(trace) : trace[i].op = op}

\* the arguments are well formed and the run finds nothing amiss outside
HealthyRun ==
    /\ env.source = "found"
    /\ env.runner # "none"
    /\ env.listing.valid
    /\ env.disk = "ok"
    /\ \A o \in {args.extra_zed_options[i] : i \in 1..Len(args.extra_zed_options)} \cup
                {args.extra_vscode_options[i] : i \in 1..Len(args.extra_vscode_options)} :
          /\ parse_yaml_option(o).ok
          /\ JsonChunks(VDict(parse_yaml_option(o).data)).ok

\* C2 as claimed: a run of the tool given skip patterns extracts the listed
\* tasks whose id is neither skipped nor matched by a pattern, and no other.
C2_SkipPatternsApplied ==
    (pc = "done" /\ caller = "main" /\ args.skip_task_patterns # <<>> /\ HealthyRun) =>
        LET Unmatched(t) == ~MatchesAny(args.skip_task_patterns, t.id)
        IN /\ error = "none"
           /\ tasks = SelectSeq(_extract_tasks(env.listing.tasks, args.skip_tasks), Unmatched)

\* C3 as claimed: main() returns 0 when the run finds nothing amiss, and 1
\* exactly when the run ended with a failure.
C3_ExitCode ==
    (pc = "done" /\ caller = "main") =>
        /\ HealthyRun => exitCode = <<0>>
        /\ exitCode = <<1>> <=> error # "none"

\* C4 as claimed: when convert() has ended, tasks.json holds the whole
\* generated document or is as it was before the run.
C4_NoPartialOutput ==
    (pc = "done" /\ args.mode = "convert") =>
        \/ tasksJson = env.file0
        \/ /\ tasksJson.exists
           /\ JsonChunks(output_data).ok
           /\ tasksJson.content = JsonChunks(output_data).chunks

\* C5: when extraction yields no task, convert() prints the warning, returns
\* None and leaves tasks.json as it was: neither opened nor written.
C5_EmptyExtraction ==
    (pc = "done" /\ args.mode = "convert" /\ At("extract") # {} /\ tasks = <<>>) =>
        /\ result = "None"
        /\ error = "none"
        /\ \E i \in At("print") : trace[i].arg = "Warning: No tasks found"
        /\ At("open") = {} /\ At("write") = {}
        /\ tasksJson = env.file0

C5_Witness ==
    /\ pc = "done"
    /\ args.mode = "convert"
    /\ At("extract") # {}
    /\ tasks = <<>>
    /\ tasks_data # <<>>
    /\ \E i \in 1..Len(tasks_data) : tasks_data[i].task \in self.skip_tasks \ {""}
    /\ env.file0 = OldFile
    /\ At("mkdir") # {}

\* C6: constructing the converter with an editor other than vscode or zed, in
\* any case of letters, fails with ValueError before anything else is done:
\* no lookup of the source file, no directory made, no probe, no option parsed.
C6_EditorCheckedFirst ==
    (caller = "api" /\ Lower(args.editor) \notin {"vscode", "zed"}) =>
        /\ trace = <<>>
        /\ self.source_file = "unset" /\ self.output_dir = "unset"
        /\ self.task_command = "unset"
        /\ self.extra_zed_options = <<>> /\ self.extra_vscode_options = <<>>
        /\ pc \in {"start", "init", "done"}
        /\ pc = "done" => error = "ValueError"

C6_Witness ==
    /\ caller = "api"
    /\ args.editor = "emacs"
    /\ pc = "done"
    /\ error = "ValueError"
    /\ env.source = "found" /\ env.runner = "task"
    /\ args.extra_zed_options # <<>>

\* the phase an operation of the trace belongs to, "" for those of __init__
Phase(e) ==
    IF e.op = "list" THEN "load"
    ELSE IF e.op \in {"extract", "project", "open", "write"} THEN e.op
    ELSE IF e.op = "print"
    THEN (IF e.arg = "Warning: No tasks found" THEN "warn" ELSE "preview")
    ELSE ""

Phases == SelectSeq([i \in 1..Len(trace) |-> Phase(trace[i])], LAMBDA ph : ph # "")

IsPrefix(s, t) == Len(s) <= Len(t) /\ s = SubSeq(t, 1, Len(s))

\* C8: the phases of a run occur in the order load, extract, project, write
\* (or load, extract, preview); tasks.json is opened and written only after
\* load, extract and project have each succeeded in that run; an operation
\* that fails is the last of the run, which ends with the exception; and the
\* preview neither opens nor writes tasks.json.
C8_PhaseOrder ==
    /\ \/ IsPrefix(Phases, <<"load", "extract", "project", "open", "write">>)
       \/ IsPrefix(Phases, <<"load", "extract", "warn">>)
       \/ IsPrefix(Phases, <<"load", "extract", "preview">>)
    /\ \A i \in 1..Len(trace) :
          (trace[i].op # "probe" /\ trace[i].res \notin {"ok", "found"}) =>
              i = Len(trace) /\ pc = "done" /\ error # "none"
    /\ error # "none" => pc = "done"
    /\ args.mode = "preview" =>
          /\ At("open") = {} /\ At("write") = {} /\ At("project") = {}
          /\ tasksJson = env.file0
    /\ tasksJson # env.file0 =>
          \E i \in At("list"), j \in At("extract"), k \in At("project"), m \in At("open") :
              i < j /\ j < k /\ k < m /\ trace[i].res = "ok" /\ trace[m].res = "ok"

C8_Witness ==
    /\ pc = "done"
    /\ error = "none"
    /\ result = "path"
    /\ Phases = <<"load", "extract", "project", "open", "write">>
    /\ tasksJson # env.file0
    /\ self.editor = "vscode"

\* C9: the probes are "task", then "go-task" only after the probe of "task"
\* failed; the first that succeeds is adopted; when neither does the run
\* ends with RuntimeError and no listing; and the listing is run with the
\* command adopted.
C9_ProbeOrder ==
    LET probes == SelectSeq(trace, LAMBDA e : e.op = "probe")
    IN /\ IsPrefix([i \in 1..Len(probes) |-> probes[i].arg], <<"task", "go-task">>)
       /\ Len(probes) = 2 => probes[1].res \in ProbeFailures
       /\ self.task_command # "unset" =>
             /\ probes # <<>>
             /\ probes[Len(probes)].res = "ok"
             /\ probes[Len(probes)].arg = self.task_command
       /\ self.task_command = "go-task" =>
             Len(probes) = 2 /\ probes[1].arg = "task" /\ probes[1].res \in ProbeFailures
       /\ (Len(probes) = 2 /\ probes[2].res \in ProbeFailures) =>
             /\ pc = "done" /\ error = "RuntimeError"
             /\ self.task_command = "unset"
             /\ At("list") = {}
       /\ \A i \in At("list") :
             /\ trace[i].arg = self.task_command
             /\ trace[i].arg \in {"task", "go-task"}
             /\ \E j \in At("probe") : j < i /\ trace[j].res = "ok" /\ trace[j].arg = trace[i].arg

C9_Witness ==
    /\ pc = "done"
    /\ self.task_command = "go-task"
    /\ \E i \in At("list") : trace[i].arg = "go-task" /\ trace[i].res = "ok"
    /\ \E i \in At("probe") : trace[i].arg = "task" /\ trace[i].res = "TimeoutExpired"

\* the option strings the VSCode presentation is tried with
VscodeOptionStrings ==
    {Opt("reveal", "silent"), Opt("echo", "false"), Opt("clear", "true"),
     Opt("reveal", "never")}

InitVscode ==
    /\ NoRun
    /\ fn \in {[name |-> "_generate_vscode_tasks", tasks |-> t, task_command |-> c,
                extra |-> x, called |-> FALSE, out |-> <<>>] :
                  t \in SeqsUpTo(ExtractedTasks, MaxTasks), c \in {"task", "go-task"},
                  x \in SeqsUpTo({parse_yaml_option(o).data : o \in VscodeOptionStrings},
                                 MaxExtra + 1)}

ApplyVscode ==
    /\ fn.name = "_generate_vscode_tasks"
    /\ ~fn.called
    /\ fn' = [fn EXCEPT !.called = TRUE,
                        !.out = _generate_vscode_tasks(fn.tasks, fn.task_command, fn.extra)]
    /\ UNCHANGED runVars

NextVscode == ApplyVscode

SpecVscode == InitVscode /\ [][NextVscode]_vars

\* C11: _generate_vscode_tasks returns {version: "2.0.0", tasks: [...]} with
\* one entry per extracted task in order; each entry has type "shell",
\* args [id], command the executable, the one presentation (the defaults
\* echo, reveal, focus, panel overridden by the extra options) and a
\* description if and only if the task's description is not empty.
C11_VscodeDocument ==
    (fn.name = "_generate_vscode_tasks" /\ fn.called) =>
        LET options == <<VscodeDefaultOptions>> \o fn.extra
            entries == DictGet(fn.out, "tasks").items
        IN /\ DictKeys(fn.out) = {"version", "tasks"}
           /\ DictGet(fn.out, "version") = VStr("2.0.0")
           /\ DictGet(fn.out, "tasks").type = "list"
           /\ Len(entries) = Len(fn.tasks)
           /\ \A i \in 1..Len(entries) :
                 LET entry == entries[i].items
                     presentation == DictGet(entry, "presentation")
                 IN /\ entries[i].type = "dict"
                    /\ DictGet(entry, "type") = VStr("shell")
                    /\ DictGet(entry, "args") = VList(<<VStr(fn.tasks[i].id)>>)
                    /\ DictGet(entry, "command") = VStr(fn.task_command)
                    /\ presentation.type = "dict"
                    /\ DictKeys(presentation.items) =
                          UNION {DictKeys(options[j]) : j \in 1..Len(options)}
                    /\ \A k \in DictKeys(presentation.items) :
                          DictGet(presentation.items, k) = LastWrite(options, k)
                    /\ presentation = DictGet(entries[1].items, "presentation")
                    /\ DictHas(entry, "description") <=> fn.tasks[i].description # ""
                    /\ DictHas(entry, "description") =>
                          DictGet(entry, "description") = VStr(fn.tasks[i].description)

C11_Witness ==
    /\ fn.name = "_generate_vscode_tasks"
    /\ fn.called
    /\ Len(fn.tasks) = 2
    /\ fn.tasks[1] = [id |-> "build", label |-> "build", description |-> "Build"]
    /\ fn.tasks[2] = [id |-> "test_unit", label |-> "test_unit", description |-> ""]
    /\ fn.extra = <<<<Item("reveal", VStr("silent"))>>, <<Item("reveal", VStr("never"))>>>>
    /\ LET entries == DictGet(fn.out, "tasks").items
       IN /\ Len(entries) = 2
          /\ DictGet(entries[1].items, "description") = VStr("Build")
          /\ ~DictHas(entries[2].items, "description")
          /\ DictGet(DictGet(entries[2].items, "presentation").items, "reveal") = VStr("never")
          /\ DictGet(DictGet(entries[2].items, "presentation").items, "panel") = VStr("shared")

====
